---- MODULE Spec2Model ----
(***************************************************************************)
(* Check-in and live-polling service (server.js): the in-memory eventData  *)
(* object and the Express handlers that read and mutate it. Each handler   *)
(* runs to completion on the Node.js event loop, so each is one action.    *)
(***************************************************************************)
EXTENDS Integers, Sequences, FiniteSets, TLC

VARIABLES eventData, response

vars == <<eventData, response>>

(***************************************************************************)
(* Bounds of the model.                                                    *)
(***************************************************************************)
\* Distances and radii are counted in 1/Unit metres (Unit = 4: quarter metres).
Unit == 4
\* Number of distinct wall-clock readings new Date() can return.
ClockTicks == 1

(***************************************************************************)
(* Program constants.                                                      *)
(***************************************************************************)
DefaultRadius == 50
PhoneDigits == 10

(***************************************************************************)
(* JavaScript values. A value is a tagged tuple; a request body is a       *)
(* record that holds only the fields the client sent.                      *)
(***************************************************************************)
Undefined == <<"undefined">>
NaN == <<"NaN">>
Num(n) == <<"number", n>>
Str(s) == <<"string", s>>
Bool(b) == <<"boolean", b>>
Arr(seq) == <<"array", seq>>
Obj(rec) == <<"object", rec>>
Inherited == <<"function">>

IsNum(v) == v[1] = "number"
Metres(m) == Num(m * Unit)

\* Destructuring const { f } = req.body: a missing field reads as undefined.
Field(body, f) == IF f \in DOMAIN body THEN body[f] ELSE Undefined

\* ToBoolean, as applied by if (...) and !.
Truthy(v) ==
  CASE v[1] = "undefined" -> FALSE
    [] v[1] = "NaN" -> FALSE
    [] v[1] = "number" -> v[2] # 0
    [] v[1] = "string" -> v[2] # ""
    [] v[1] = "boolean" -> v[2]
    [] OTHER -> TRUE

\* a > b on numbers; undefined converts to NaN and every comparison with NaN is false.
GreaterThan(a, b) == IsNum(a) /\ IsNum(b) /\ a[2] > b[2]

\* Math.round: the nearest integer, halves rounded up; NaN for undefined.
MathRound(v) ==
  IF IsNum(v) THEN Num(((2 * v[2] + Unit) \div (2 * Unit)) * Unit) ELSE NaN

\* Property key of obj[k]: a string is itself, undefined is "undefined".
PropertyKey(v) == IF v[1] = "string" THEN v[2] ELSE v[1]

\* Properties every object literal inherits from Object.prototype.
ObjectPrototypeKeys == {"constructor"}

\* obj[k]: the own property, else the inherited one, else undefined.
Get(obj, k) ==
  IF PropertyKey(k) \in DOMAIN obj THEN obj[PropertyKey(k)]
  ELSE IF PropertyKey(k) \in ObjectPrototypeKeys THEN Inherited
  ELSE Undefined

\* obj[k] = v
Put(obj, k, v) ==
  [x \in DOMAIN obj \cup {PropertyKey(k)} |-> IF x = PropertyKey(k) THEN v ELSE obj[x]]

EmptyObject == [x \in {} |-> Undefined]

(***************************************************************************)
(* Phone numbers are strings whose characters the code inspects: they are  *)
(* kept as sequences of characters, Text(<<"5", "5", ...>>).               *)
(***************************************************************************)
Text(chars) == <<"text", chars>>
DigitChars == {"0", "1", "2", "3", "4", "5", "6", "7", "8", "9"}

\* s.replace(/\D/g, '')
StripNonDigits(s) == SelectSeq(s, LAMBDA c : c \in DigitChars)

BobPhone == <<"5", "5", "5", "9", "8", "7", "6", "5", "4", "3">>
AliceFormatted ==
  <<"(", "5", "5", "5", ")", " ", "1", "2", "3", "-", "4", "5", "6", "7">>
ShortPhone == <<"5", "5", "5", "-", "1", "2", "3", "4">>

(***************************************************************************)
(* The state after the module is loaded.                                   *)
(***************************************************************************)
NoLocation == Obj([lat |-> "null", lng |-> "null"])

InitialEventData ==
  [eventName |-> Str(""),
   eventLocation |-> NoLocation,
   radius |-> Num(DefaultRadius * Unit),
   accessCode |-> Str(""),
   isEventActive |-> FALSE,
   attendees |-> <<>>,
   deviceFingerprints |-> <<>>,
   pollQuestion |-> Str(""),
   pollOptions |-> Arr(<<>>),
   isPollActive |-> FALSE,
   votes |-> EmptyObject,
   approvedMembers |-> <<>>,
   requireLocation |-> TRUE]

\* What a handler sent back: the route, the HTTP status and the reason.
Reply(op, status, reason) == [op |-> op, status |-> status, reason |-> reason]

Init ==
  /\ eventData = InitialEventData
  /\ response = Reply("none", 0, "none")

(***************************************************************************)
(* Roster ingestion: parseCSVFromBuffer and POST /api/upload-roster.       *)
(***************************************************************************)
\* row[k1] || row[k2] || ... || '' over the columns of a parsed CSV row.
RECURSIVE FirstColumn(_, _, _)
FirstColumn(row, keys, empty) ==
  IF keys = <<>> THEN empty
  ELSE IF Head(keys) \in DOMAIN row /\ row[Head(keys)] # empty THEN row[Head(keys)]
  ELSE FirstColumn(row, Tail(keys), empty)

\* `${firstName} ${lastName}`.trim()
FullName(firstName, lastName) ==
  IF firstName = "" THEN lastName
  ELSE IF lastName = "" THEN firstName
  ELSE firstName \o " " \o lastName

\* The on('data') callback: the member a row yields, or no member.
MemberOfRow(row) ==
  LET firstName == FirstColumn(row, <<"First", "first", "First Name", "first name">>, "")
      lastName == FirstColumn(row, <<"Last", "last", "Last Name", "last name">>, "")
      fullName == FullName(firstName, lastName)
      phone == StripNonDigits(FirstColumn(row,
                 <<"Cell Phone", "cell phone", "Phone", "phone", "PHONE", "Cell", "cell">>, <<>>))
      rollNumber == FirstColumn(row, <<"Roll Number", "roll number", "Roll">>, "")
      email == FirstColumn(row, <<"Email", "email", "EMAIL">>, "")
  IN IF fullName # "" /\ phone # <<>> /\ Len(phone) = PhoneDigits
     THEN <<[name |-> fullName, phone |-> phone, rollNumber |-> rollNumber,
             email |-> email, firstName |-> firstName, lastName |-> lastName]>>
     ELSE <<>>

RECURSIVE parseCSVFromBuffer(_)
parseCSVFromBuffer(rows) ==
  IF rows = <<>> THEN <<>>
  ELSE MemberOfRow(Head(rows)) \o parseCSVFromBuffer(Tail(rows))

\* A handler returns the session state it leaves and the reply it sends.
Done(data, reply) == [data |-> data, reply |-> reply]

uploadRoster(ed, req) ==
  IF "file" \notin DOMAIN req
  THEN Done(ed, Reply("upload-roster", 400, "NoFile"))
  ELSE IF ~req.file.csvName
  THEN Done(ed, Reply("upload-roster", 400, "InvalidFileType"))
  ELSE IF ~req.file.readable
  THEN Done(ed, Reply("upload-roster", 500, "ParseError"))
  ELSE LET members == parseCSVFromBuffer(req.file.rows)
       IN IF Len(members) = 0
          THEN Done(ed, Reply("upload-roster", 400, "NoValidMembers"))
          ELSE Done([ed EXCEPT !.approvedMembers = members],
                    Reply("upload-roster", 200, "Success"))

(***************************************************************************)
(* Event and poll lifecycle.                                               *)
(***************************************************************************)
\* The ledger emptied, the fingerprint set kept.
startEventKeepsFingerprints(ed, body) ==
  Done([ed EXCEPT !.eventName = Field(body, "eventName"),
                  !.eventLocation = Field(body, "eventLocation"),
                  !.radius = Field(body, "radius"),
                  !.accessCode = Field(body, "accessCode"),
                  !.requireLocation = (Field(body, "requireLocation") # Bool(FALSE)),
                  !.isEventActive = TRUE,
                  !.attendees = <<>>],
       Reply("start-event", 200, "Success"))

\* The fingerprint set emptied, the ledger kept.
startEventKeepsLedger(ed, body) ==
  Done([ed EXCEPT !.eventName = Field(body, "eventName"),
                  !.eventLocation = Field(body, "eventLocation"),
                  !.radius = Field(body, "radius"),
                  !.accessCode = Field(body, "accessCode"),
                  !.requireLocation = (Field(body, "requireLocation") # Bool(FALSE)),
                  !.isEventActive = TRUE,
                  !.deviceFingerprints = <<>>],
       Reply("start-event", 200, "Success"))

startEvent(ed, body) ==
  Done([ed EXCEPT !.eventName = Field(body, "eventName"),
                  !.eventLocation = Field(body, "eventLocation"),
                  !.radius = Field(body, "radius"),
                  !.accessCode = Field(body, "accessCode"),
                  !.requireLocation = (Field(body, "requireLocation") # Bool(FALSE)),
                  !.isEventActive = TRUE,
                  !.attendees = <<>>,
                  !.deviceFingerprints = <<>>],
       Reply("start-event", 200, "Success"))

\* The event ended and its ledger dropped with it.
endEventDropsLedger(ed) ==
  Done([ed EXCEPT !.isEventActive = FALSE, !.attendees = <<>>],
       Reply("end-event", 200, "Success"))

endEvent(ed) ==
  Done([ed EXCEPT !.isEventActive = FALSE], Reply("end-event", 200, "Success"))

startPoll(ed, body) ==
  Done([ed EXCEPT !.pollQuestion = Field(body, "pollQuestion"),
                  !.pollOptions = Field(body, "pollOptions"),
                  !.isPollActive = TRUE,
                  !.votes = EmptyObject],
       Reply("start-poll", 200, "Success"))

endPoll(ed) ==
  Done([ed EXCEPT !.isPollActive = FALSE], Reply("end-poll", 200, "Success"))

(***************************************************************************)
(* POST /api/checkin                                                       *)
(***************************************************************************)
\* approvedMembers.find(member => member.phone === normalizedPhone)
RECURSIVE Find(_, _)
Find(members, normalizedPhone) ==
  IF members = <<>> THEN Undefined
  ELSE IF Head(members).phone = normalizedPhone THEN Obj(Head(members))
  ELSE Find(Tail(members), normalizedPhone)

\* deviceFingerprints.includes(fingerprint)
Includes(array, v) == \E i \in 1..Len(array) : array[i] = v

\* attendees.some(a => a.phone === normalizedPhone)
SomePhone(attendees, normalizedPhone) ==
  \E i \in 1..Len(attendees) : attendees[i].phone = normalizedPhone

\* new Date().toLocaleTimeString(): whatever the wall clock reads.
ClockReadings == 1..ClockTicks

\* The device check made before the roster lookup.
checkinChecksDeviceFirst(ed, body) ==
  LET phone == Field(body, "phone")
      fingerprint == Field(body, "fingerprint")
      distance == Field(body, "distance")
      normalizedPhone == StripNonDigits(phone[2])
  IN IF ~ed.isEventActive THEN Reply("checkin", 400, "NoActiveEvent")
     ELSE IF phone = Undefined THEN Reply("checkin", 500, "TypeError")
     ELSE IF Len(normalizedPhone) # PhoneDigits
       THEN Reply("checkin", 400, "InvalidIdentityFormat")
     ELSE IF Includes(ed.deviceFingerprints, fingerprint)
       THEN Reply("checkin", 400, "DeviceAlreadyCheckedIn")
     ELSE IF ~(Len(ed.approvedMembers) > 0)
       THEN Reply("checkin", 400, "NoRosterLoaded")
     ELSE IF ~Truthy(Find(ed.approvedMembers, normalizedPhone))
       THEN Reply("checkin", 403, "NotOnRoster")
     ELSE IF SomePhone(ed.attendees, normalizedPhone)
       THEN Reply("checkin", 400, "AlreadyCheckedIn")
     ELSE IF ed.requireLocation /\ GreaterThan(distance, ed.radius)
       THEN Reply("checkin", 400, "OutOfRange")
     ELSE Reply("checkin", 200, "Success")

\* The phone check made before the device check.
checkinChecksPhoneFirst(ed, body) ==
  LET phone == Field(body, "phone")
      fingerprint == Field(body, "fingerprint")
      distance == Field(body, "distance")
      normalizedPhone == StripNonDigits(phone[2])
  IN IF ~ed.isEventActive THEN Reply("checkin", 400, "NoActiveEvent")
     ELSE IF phone = Undefined THEN Reply("checkin", 500, "TypeError")
     ELSE IF Len(normalizedPhone) # PhoneDigits
       THEN Reply("checkin", 400, "InvalidIdentityFormat")
     ELSE IF ~(Len(ed.approvedMembers) > 0)
       THEN Reply("checkin", 400, "NoRosterLoaded")
     ELSE IF ~Truthy(Find(ed.approvedMembers, normalizedPhone))
       THEN Reply("checkin", 403, "NotOnRoster")
     ELSE IF SomePhone(ed.attendees, normalizedPhone)
       THEN Reply("checkin", 400, "AlreadyCheckedIn")
     ELSE IF Includes(ed.deviceFingerprints, fingerprint)
       THEN Reply("checkin", 400, "DeviceAlreadyCheckedIn")
     ELSE IF ed.requireLocation /\ GreaterThan(distance, ed.radius)
       THEN Reply("checkin", 400, "OutOfRange")
     ELSE Reply("checkin", 200, "Success")

\* The phone check made on the phone as typed, not on its digits.
checkinChecksRawPhone(ed, body) ==
  LET phone == Field(body, "phone")
      fingerprint == Field(body, "fingerprint")
      distance == Field(body, "distance")
      normalizedPhone == StripNonDigits(phone[2])
  IN IF ~ed.isEventActive THEN Reply("checkin", 400, "NoActiveEvent")
     ELSE IF phone = Undefined THEN Reply("checkin", 500, "TypeError")
     ELSE IF Len(normalizedPhone) # PhoneDigits
       THEN Reply("checkin", 400, "InvalidIdentityFormat")
     ELSE IF ~(Len(ed.approvedMembers) > 0)
       THEN Reply("checkin", 400, "NoRosterLoaded")
     ELSE IF ~Truthy(Find(ed.approvedMembers, normalizedPhone))
       THEN Reply("checkin", 403, "NotOnRoster")
     ELSE IF Includes(ed.deviceFingerprints, fingerprint)
       THEN Reply("checkin", 400, "DeviceAlreadyCheckedIn")
     ELSE IF SomePhone(ed.attendees, phone[2])
       THEN Reply("checkin", 400, "AlreadyCheckedIn")
     ELSE IF ed.requireLocation /\ GreaterThan(distance, ed.radius)
       THEN Reply("checkin", 400, "OutOfRange")
     ELSE Reply("checkin", 200, "Success")

\* The checks of the handler, in the order the code makes them.
checkinChecks(ed, body) ==
  LET phone == Field(body, "phone")
      fingerprint == Field(body, "fingerprint")
      distance == Field(body, "distance")
      normalizedPhone == StripNonDigits(phone[2])
  IN IF ~ed.isEventActive THEN Reply("checkin", 400, "NoActiveEvent")
     ELSE IF phone = Undefined THEN Reply("checkin", 500, "TypeError")
     ELSE IF Len(normalizedPhone) # PhoneDigits
       THEN Reply("checkin", 400, "InvalidIdentityFormat")
     ELSE IF ~(Len(ed.approvedMembers) > 0)
       THEN Reply("checkin", 400, "NoRosterLoaded")
     ELSE IF ~Truthy(Find(ed.approvedMembers, normalizedPhone))
       THEN Reply("checkin", 403, "NotOnRoster")
     ELSE IF Includes(ed.deviceFingerprints, fingerprint)
       THEN Reply("checkin", 400, "DeviceAlreadyCheckedIn")
     ELSE IF SomePhone(ed.attendees, normalizedPhone)
       THEN Reply("checkin", 400, "AlreadyCheckedIn")
     ELSE IF ed.requireLocation /\ GreaterThan(distance, ed.radius)
       THEN Reply("checkin", 400, "OutOfRange")
     ELSE Reply("checkin", 200, "Success")

\* The phone stored as typed and the distance as reported.
newAttendeeAsSent(ed, body, now) ==
  LET normalizedPhone == StripNonDigits(Field(body, "phone")[2])
  IN [name |-> Find(ed.approvedMembers, normalizedPhone)[2].name,
      phone |-> Field(body, "phone")[2],
      checkInTime |-> now,
      distance |-> Field(body, "distance"),
      fingerprint |-> Field(body, "fingerprint")]

\* The attendee the handler builds once every check has passed.
newAttendee(ed, body, now) ==
  LET normalizedPhone == StripNonDigits(Field(body, "phone")[2])
  IN [name |-> Find(ed.approvedMembers, normalizedPhone)[2].name,
      phone |-> normalizedPhone,
      checkInTime |-> now,
      distance |-> MathRound(Field(body, "distance")),
      fingerprint |-> Field(body, "fingerprint")]

\* The attendee appended, the fingerprint never pushed.
checkinNoFingerprintPush(ed, body, now) ==
  LET reply == checkinChecks(ed, body)
  IN IF reply.reason # "Success" THEN Done(ed, reply)
     ELSE Done([ed EXCEPT !.attendees = Append(@, newAttendee(ed, body, now))], reply)

\* The fingerprint pushed before the distance check.
checkinEarlyPush(ed, body, now) ==
  LET reply == checkinChecks(ed, body)
  IN IF reply.reason = "OutOfRange"
     THEN Done([ed EXCEPT !.deviceFingerprints = Append(@, Field(body, "fingerprint"))],
               reply)
     ELSE IF reply.reason # "Success" THEN Done(ed, reply)
     ELSE Done([ed EXCEPT
                  !.attendees = Append(@, newAttendee(ed, body, now)),
                  !.deviceFingerprints = Append(@, Field(body, "fingerprint"))],
               reply)

\* An empty roster lets everyone in, under the phone as name.
checkinFailOpen(ed, body, now) ==
  LET reply == checkinChecks(ed, body)
  IN IF reply.reason = "NoRosterLoaded"
     THEN Done([ed EXCEPT
                  !.attendees = Append(@,
                     [name |-> "", phone |-> StripNonDigits(Field(body, "phone")[2]),
                      checkInTime |-> now,
                      distance |-> MathRound(Field(body, "distance")),
                      fingerprint |-> Field(body, "fingerprint")]),
                  !.deviceFingerprints = Append(@, Field(body, "fingerprint"))],
               Reply("checkin", 200, "Success"))
     ELSE IF reply.reason # "Success" THEN Done(ed, reply)
     ELSE Done([ed EXCEPT
                  !.attendees = Append(@, newAttendee(ed, body, now)),
                  !.deviceFingerprints = Append(@, Field(body, "fingerprint"))],
               reply)

\* The attendee put at the head of the ledger: attendees.unshift(attendee).
checkinUnshift(ed, body, now) ==
  LET reply == checkinChecks(ed, body)
  IN IF reply.reason # "Success" THEN Done(ed, reply)
     ELSE Done([ed EXCEPT
                  !.attendees = <<newAttendee(ed, body, now)>> \o @,
                  !.deviceFingerprints = Append(@, Field(body, "fingerprint"))],
               reply)

checkin(ed, body, now) ==
  LET reply == checkinChecks(ed, body)
  IN IF reply.reason # "Success" THEN Done(ed, reply)
     ELSE Done([ed EXCEPT
                  !.attendees = Append(@, newAttendee(ed, body, now)),
                  !.deviceFingerprints = Append(@, Field(body, "fingerprint"))],
               reply)

(***************************************************************************)
(* POST /api/vote                                                          *)
(***************************************************************************)
\* attendees.find(a => a.fingerprint === fingerprint)
FindAttendee(attendees, fingerprint) ==
  IF \E i \in 1..Len(attendees) : attendees[i].fingerprint = fingerprint
  THEN Obj(attendees[CHOOSE i \in 1..Len(attendees) :
                       /\ attendees[i].fingerprint = fingerprint
                       /\ \A j \in 1..(i - 1) : attendees[j].fingerprint # fingerprint])
  ELSE Undefined

\* The ledger never consulted.
voteChecksNoLedger(ed, body) ==
  LET fingerprint == Field(body, "fingerprint")
      distance == Field(body, "distance")
  IN IF ~ed.isPollActive THEN Reply("vote", 400, "NoActivePoll")
     ELSE IF Truthy(Get(ed.votes, fingerprint))
       THEN Reply("vote", 400, "AlreadyVoted")
     ELSE IF ed.requireLocation /\ GreaterThan(distance, ed.radius)
       THEN Reply("vote", 400, "OutOfRange")
     ELSE Reply("vote", 200, "Success")

\* The vote refused once the event has ended.
voteChecksNeedsEvent(ed, body) ==
  LET fingerprint == Field(body, "fingerprint")
      distance == Field(body, "distance")
  IN IF ~ed.isPollActive THEN Reply("vote", 400, "NoActivePoll")
     ELSE IF ~ed.isEventActive THEN Reply("vote", 400, "NoActiveEvent")
     ELSE IF ~Truthy(FindAttendee(ed.attendees, fingerprint))
       THEN Reply("vote", 403, "NotCheckedIn")
     ELSE IF Truthy(Get(ed.votes, fingerprint))
       THEN Reply("vote", 400, "AlreadyVoted")
     ELSE IF ed.requireLocation /\ GreaterThan(distance, ed.radius)
       THEN Reply("vote", 400, "OutOfRange")
     ELSE Reply("vote", 200, "Success")

voteChecks(ed, body) ==
  LET fingerprint == Field(body, "fingerprint")
      distance == Field(body, "distance")
  IN IF ~ed.isPollActive THEN Reply("vote", 400, "NoActivePoll")
     ELSE IF ~Truthy(FindAttendee(ed.attendees, fingerprint))
       THEN Reply("vote", 403, "NotCheckedIn")
     ELSE IF Truthy(Get(ed.votes, fingerprint))
       THEN Reply("vote", 400, "AlreadyVoted")
     ELSE IF ed.requireLocation /\ GreaterThan(distance, ed.radius)
       THEN Reply("vote", 400, "OutOfRange")
     ELSE Reply("vote", 200, "Success")

vote(ed, body) ==
  LET reply == voteChecks(ed, body)
  IN IF reply.reason # "Success" THEN Done(ed, reply)
     ELSE Done([ed EXCEPT !.votes = Put(@, Field(body, "fingerprint"),
                                         Field(body, "option"))],
               reply)

(***************************************************************************)
(* GET /api/votes and GET /api/attendees: they read, and change nothing.   *)
(* The first is an action, for its reply; the second is its body alone.    *)
(***************************************************************************)
\* pollOptions.forEach(opt => { results[opt] = 0 })
InitResults(options) == [o \in {options[i] : i \in 1..Len(options)} |-> 0]

\* Every recorded value given a bucket: results[vote] = (results[vote] || 0) + 1.
RECURSIVE CountVotesUnchecked(_, _, _)
CountVotesUnchecked(results, votes, keys) ==
  IF keys = {} THEN results
  ELSE LET k == CHOOSE x \in keys : TRUE
           o == PropertyKey(votes[k])
       IN CountVotesUnchecked(
            [x \in DOMAIN results \cup {o} |->
               IF x = o THEN (IF o \in DOMAIN results THEN results[o] ELSE 0) + 1
               ELSE results[x]],
            votes, keys \ {k})

\* Object.values(votes).forEach(vote => { if (results.hasOwnProperty(vote)) results[vote]++ })
RECURSIVE CountVotes(_, _, _)
CountVotes(results, votes, keys) ==
  IF keys = {} THEN results
  ELSE LET k == CHOOSE x \in keys : TRUE
           o == PropertyKey(votes[k])
       IN CountVotes(IF o \in DOMAIN results
                       THEN [results EXCEPT ![o] = @ + 1]
                       ELSE results,
                     votes, keys \ {k})

\* The body GET /api/votes sends.
tallyVotes(ed) ==
  [results |-> CountVotes(InitResults(ed.pollOptions[2]), ed.votes, DOMAIN ed.votes),
   totalVotes |-> Cardinality(DOMAIN ed.votes)]

getVotes(ed) ==
  IF ed.pollOptions = Undefined
  THEN Done(ed, Reply("votes", 500, "TypeError"))
  ELSE Done(ed, Reply("votes", 200, "Success"))

\* The body GET /api/attendees sends.
listAttendees(ed) == ed.attendees

(***************************************************************************)
(* The requests the clients send. A field may be left out of any body.     *)
(***************************************************************************)
NoFields == [x \in {} |-> Undefined]

With(body, f, values) ==
  [x \in DOMAIN body \cup {f} |-> IF x = f THEN values ELSE body[x]]

\* Every body that extends one of `bodies` with field f, or leaves f out.
Optional(bodies, f, values) ==
  bodies \cup {With(b, f, v) : b \in bodies, v \in values}

Required(bodies, f, values) == {With(b, f, v) : b \in bodies, v \in values}

Phones == {Text(AliceFormatted), Text(BobPhone), Text(ShortPhone)}
Fingerprints == {Str("fp1"), Str("fp2")}
\* Just inside the default radius, on it, and just outside it.
Distances ==
  {Num(DefaultRadius * Unit - 1), Metres(DefaultRadius), Num(DefaultRadius * Unit + 1)}
Options == {Str("Yes"), Str("No"), Str("")}

CheckinBodies ==
  Required(Required(Required({NoFields}, "phone", Phones),
                    "fingerprint", Fingerprints), "distance", Distances)

\* A vote records no distance: on the radius and just outside it are the cases.
VoteDistances == {Metres(DefaultRadius), Num(DefaultRadius * Unit + 1)}

\* The votes sent carry every field, the option possibly empty.
VoteBodies ==
  Required(Required(Required({NoFields}, "fingerprint", Fingerprints),
                    "option", Options), "distance", VoteDistances)

Venue == Obj([lat |-> "33.77", lng |-> "-84.39"])

StartEventBodies ==
  Optional(Optional(
    {[eventName |-> Str("Chapter"), eventLocation |-> Venue, accessCode |-> Str("1234")]},
    "radius", {Metres(DefaultRadius)}),
    "requireLocation", {Bool(TRUE), Bool(FALSE)})

StartPollBodies ==
  {[pollQuestion |-> Str("Approve?"), pollOptions |-> Arr(<<"Yes", "No">>)]}

AliceRow == [First |-> "Alice", Last |-> "Smith", Email |-> "alice@example.org"]
              @@ ("Cell Phone" :> AliceFormatted)
BobRow == [first |-> "Bob", Last |-> "Jones", Phone |-> BobPhone]
CarlRow == [First |-> "Carl", Last |-> "Short", Phone |-> ShortPhone]

UploadRequests ==
  {NoFields,
   [file |-> [csvName |-> FALSE, readable |-> TRUE, rows |-> <<AliceRow, BobRow>>]],
   [file |-> [csvName |-> TRUE, readable |-> FALSE, rows |-> <<>>]],
   [file |-> [csvName |-> TRUE, readable |-> TRUE, rows |-> <<CarlRow>>]],
   [file |-> [csvName |-> TRUE, readable |-> TRUE, rows |-> <<AliceRow, CarlRow, BobRow>>]],
   [file |-> [csvName |-> TRUE, readable |-> TRUE, rows |-> <<BobRow>>]]}

(***************************************************************************)
(* One action per route.                                                   *)
(***************************************************************************)
UploadRoster ==
  \E req \in UploadRequests :
    LET result == uploadRoster(eventData, req) IN
    /\ eventData' = result.data
    /\ response' = result.reply

StartEvent ==
  \E body \in StartEventBodies :
    LET result == startEvent(eventData, body) IN
    /\ eventData' = result.data
    /\ response' = result.reply

EndEvent ==
  LET result == endEvent(eventData) IN
    /\ eventData' = result.data
    /\ response' = result.reply

StartPoll ==
  \E body \in StartPollBodies :
    LET result == startPoll(eventData, body) IN
    /\ eventData' = result.data
    /\ response' = result.reply

EndPoll ==
  LET result == endPoll(eventData) IN
    /\ eventData' = result.data
    /\ response' = result.reply

CheckIn ==
  \E body \in CheckinBodies, now \in ClockReadings :
    LET result == checkin(eventData, body, now) IN
    /\ eventData' = result.data
    /\ response' = result.reply

Vote ==
  \E body \in VoteBodies :
    LET result == vote(eventData, body) IN
    /\ eventData' = result.data
    /\ response' = result.reply

GetVotes ==
  LET result == getVotes(eventData) IN
    /\ eventData' = result.data
    /\ response' = result.reply

Next ==
  \/ UploadRoster
  \/ StartEvent
  \/ EndEvent
  \/ StartPoll
  \/ EndPoll
  \/ CheckIn
  \/ Vote
  \/ GetVotes

Spec == Init /\ [][Next]_vars

(***************************************************************************)
(* The second copy of the server, src/unnamed/part_000: the session state  *)
(* has no requireLocation, the roster is read from Excel or CSV files and  *)
(* whatever the parser returns becomes the roster. Its roster, event and   *)
(* check-in routes are modelled; ending the event is the same code.        *)
(***************************************************************************)
InitialEventDataVariant ==
  [eventName |-> Str(""),
   eventLocation |-> NoLocation,
   radius |-> Num(DefaultRadius * Unit),
   accessCode |-> Str(""),
   isEventActive |-> FALSE,
   attendees |-> <<>>,
   deviceFingerprints |-> <<>>,
   pollQuestion |-> Str(""),
   pollOptions |-> Arr(<<>>),
   isPollActive |-> FALSE,
   votes |-> EmptyObject,
   approvedMembers |-> <<>>]

InitVariant ==
  /\ eventData = InitialEventDataVariant
  /\ response = Reply("none", 0, "none")

\* data.forEach(row => ...) of parseExcelFromBuffer: a row with a 10-digit phone
\* is a member, named or not.
MemberOfSheetRow(row) ==
  LET phone == StripNonDigits(FirstColumn(row,
                 <<"Cell Phone", "Phone", "cell phone", "phone">>, <<>>))
      firstName == FirstColumn(row, <<"First", "first", "First Name">>, "")
      lastName == FirstColumn(row, <<"Last", "last", "Last Name">>, "")
      rollNumber == FirstColumn(row, <<"Roll Number", "roll number">>, "")
  IN IF phone # <<>> /\ Len(phone) = PhoneDigits
     THEN <<[name |-> FullName(firstName, lastName), phone |-> phone,
             rollNumber |-> rollNumber, firstName |-> firstName,
             lastName |-> lastName]>>
     ELSE <<>>

RECURSIVE parseExcelFromBuffer(_)
parseExcelFromBuffer(rows) ==
  IF rows = <<>> THEN <<>>
  ELSE MemberOfSheetRow(Head(rows)) \o parseExcelFromBuffer(Tail(rows))

\* The on('data') callback of the CSV parser: a row with a name or a 10-digit
\* phone is a member, under whatever digits its phone column holds.
MemberOfRowVariant(row) ==
  LET name == FirstColumn(row,
                <<"name", "Name", "NAME", "fullname", "Full Name", "full name">>, "")
      email == FirstColumn(row, <<"email", "Email", "EMAIL">>, "")
      memberId == FirstColumn(row, <<"id", "ID", "memberid", "Member ID">>, "")
      phone == StripNonDigits(FirstColumn(row,
                 <<"phone", "Phone", "PHONE", "Cell Phone">>, <<>>))
  IN IF name # "" \/ (phone # <<>> /\ Len(phone) = PhoneDigits)
     THEN <<[name |-> name, email |-> email, memberId |-> memberId, phone |-> phone]>>
     ELSE <<>>

RECURSIVE parseCSVFromBufferVariant(_)
parseCSVFromBufferVariant(rows) ==
  IF rows = <<>> THEN <<>>
  ELSE MemberOfRowVariant(Head(rows)) \o parseCSVFromBufferVariant(Tail(rows))

\* What the file's parser returns, the file being readable.
membersOfFile(file) ==
  IF file.type = "xlsx" THEN parseExcelFromBuffer(file.rows)
  ELSE parseCSVFromBufferVariant(file.rows)

uploadRosterVariant(ed, req) ==
  IF "file" \notin DOMAIN req
  THEN Done(ed, Reply("upload-roster", 400, "NoFile"))
  ELSE IF req.file.type \notin {"xlsx", "csv"}
  THEN Done(ed, Reply("upload-roster", 400, "InvalidFileType"))
  ELSE IF ~req.file.readable
  THEN Done(ed, Reply("upload-roster", 500, "ParseError"))
  ELSE Done([ed EXCEPT !.approvedMembers = membersOfFile(req.file)],
            Reply("upload-roster", 200, "Success"))

startEventVariant(ed, body) ==
  Done([ed EXCEPT !.eventName = Field(body, "eventName"),
                  !.eventLocation = Field(body, "eventLocation"),
                  !.radius = Field(body, "radius"),
                  !.accessCode = Field(body, "accessCode"),
                  !.isEventActive = TRUE,
                  !.attendees = <<>>,
                  !.deviceFingerprints = <<>>],
       Reply("start-event", 200, "Success"))

checkinChecksVariant(ed, body) ==
  LET phone == Field(body, "phone")
      fingerprint == Field(body, "fingerprint")
      distance == Field(body, "distance")
      normalizedPhone == StripNonDigits(phone[2])
  IN IF ~ed.isEventActive THEN Reply("checkin", 400, "NoActiveEvent")
     ELSE IF phone = Undefined THEN Reply("checkin", 500, "TypeError")
     ELSE IF Len(normalizedPhone) # PhoneDigits
       THEN Reply("checkin", 400, "InvalidIdentityFormat")
     ELSE IF ~(Len(ed.approvedMembers) > 0)
       THEN Reply("checkin", 400, "NoRosterLoaded")
     ELSE IF ~Truthy(Find(ed.approvedMembers, normalizedPhone))
       THEN Reply("checkin", 403, "NotOnRoster")
     ELSE IF Includes(ed.deviceFingerprints, fingerprint)
       THEN Reply("checkin", 400, "DeviceAlreadyCheckedIn")
     ELSE IF SomePhone(ed.attendees, normalizedPhone)
       THEN Reply("checkin", 400, "AlreadyCheckedIn")
     ELSE IF GreaterThan(distance, ed.radius)
       THEN Reply("checkin", 400, "OutOfRange")
     ELSE Reply("checkin", 200, "Success")

checkinVariant(ed, body, now) ==
  LET reply == checkinChecksVariant(ed, body)
      normalizedPhone == StripNonDigits(Field(body, "phone")[2])
      attendee == [name |-> Find(ed.approvedMembers, normalizedPhone)[2].name,
                   phone |-> normalizedPhone,
                   checkInTime |-> now,
                   distance |-> MathRound(Field(body, "distance")),
                   fingerprint |-> Field(body, "fingerprint")]
  IN IF reply.reason # "Success" THEN Done(ed, reply)
     ELSE Done([ed EXCEPT
                  !.attendees = Append(@, attendee),
                  !.deviceFingerprints = Append(@, Field(body, "fingerprint"))],
               reply)

\* The start requests, which carry no requireLocation.
StartEventBodiesVariant ==
  {[f \in DOMAIN body \ {"requireLocation"} |-> body[f]] : body \in StartEventBodies}

BobCsvRow == [name |-> "Bob Jones", phone |-> BobPhone]
CarlCsvRow == [name |-> "Carl Short", phone |-> ShortPhone]
MailOnlyRow == [email |-> "dana@example.org"]

UploadRequestsVariant ==
  {NoFields,
   [file |-> [type |-> "txt", readable |-> TRUE, rows |-> <<BobCsvRow>>]],
   [file |-> [type |-> "xlsx", readable |-> FALSE, rows |-> <<>>]],
   [file |-> [type |-> "xlsx", readable |-> TRUE, rows |-> <<AliceRow, CarlRow>>]],
   [file |-> [type |-> "csv", readable |-> TRUE, rows |-> <<BobCsvRow, CarlCsvRow>>]],
   [file |-> [type |-> "csv", readable |-> TRUE, rows |-> <<MailOnlyRow>>]]}

UploadRosterVariant ==
  \E req \in UploadRequestsVariant :
    LET result == uploadRosterVariant(eventData, req) IN
    /\ eventData' = result.data
    /\ response' = result.reply

StartEventVariant ==
  \E body \in StartEventBodiesVariant :
    LET result == startEventVariant(eventData, body) IN
    /\ eventData' = result.data
    /\ response' = result.reply

CheckInVariant ==
  \E body \in CheckinBodies, now \in ClockReadings :
    LET result == checkinVariant(eventData, body, now) IN
    /\ eventData' = result.data
    /\ response' = result.reply

NextVariant ==
  \/ UploadRosterVariant
  \/ StartEventVariant
  \/ EndEvent
  \/ CheckInVariant

SpecVariant == InitVariant /\ [][NextVariant]_vars

(***************************************************************************)
(* Vocabulary of the properties.                                           *)
(***************************************************************************)
Range(seq) == {seq[i] : i \in 1..Len(seq)}

RosterPhones(ed) == {m.phone : m \in Range(ed.approvedMembers)}
LedgerPhones(ed) == {a.phone : a \in Range(ed.attendees)}
LedgerFingerprints(ed) == {a.fingerprint : a \in Range(ed.attendees)}
UsedFingerprints(ed) == Range(ed.deviceFingerprints)
Voters(ed) == DOMAIN ed.votes

DigitsOf(body) == StripNonDigits(body.phone[2])

\* The distance lies beyond the radius, both being numbers.
Beyond(distance, radius) ==
  /\ distance[1] = "number"
  /\ radius[1] = "number"
  /\ ~(distance[2] <= radius[2])

\* The reason of the first check that fails, each check a pair <<fails, reason>>.
FirstFailure(checks) ==
  IF \E i \in 1..Len(checks) : checks[i][1]
  THEN checks[CHOOSE i \in 1..Len(checks) :
                /\ checks[i][1]
                /\ \A j \in 1..(i - 1) : ~checks[j][1]][2]
  ELSE "Success"

CheckinOrder(ed, body) ==
  << <<~ed.isEventActive, "NoActiveEvent">>,
     <<Len(DigitsOf(body)) # PhoneDigits, "InvalidIdentityFormat">>,
     <<ed.approvedMembers = <<>>, "NoRosterLoaded">>,
     <<DigitsOf(body) \notin RosterPhones(ed), "NotOnRoster">>,
     <<body.fingerprint \in UsedFingerprints(ed), "DeviceAlreadyCheckedIn">>,
     <<DigitsOf(body) \in LedgerPhones(ed), "AlreadyCheckedIn">>,
     <<ed.requireLocation /\ Beyond(body.distance, ed.radius), "OutOfRange">> >>

VoteOrder(ed, body) ==
  << <<~ed.isPollActive, "NoActivePoll">>,
     <<body.fingerprint \notin LedgerFingerprints(ed), "NotCheckedIn">>,
     <<PropertyKey(body.fingerprint) \in Voters(ed), "AlreadyVoted">>,
     <<ed.requireLocation /\ Beyond(body.distance, ed.radius), "OutOfRange">> >>

CheckinReason(body) == checkin(eventData, body, 1).reply.reason
VoteReason(body) == vote(eventData, body).reply.reason

\* C1: in every reachable state, every check-in request is answered with the
\* reason of the first failing check in the order event active, phone format,
\* roster, device, phone already used, distance; it succeeds when none fails.
CheckinReturnsFirstFailure ==
  \A body \in CheckinBodies :
    CheckinReason(body) = FirstFailure(CheckinOrder(eventData, body))

\* C1 witness: a check-in was refused for its device while some request fails
\* the device, the phone and the distance check at once.
CheckinSeveralChecksFail ==
  /\ response.op = "checkin"
  /\ response.reason = "DeviceAlreadyCheckedIn"
  /\ \E body \in CheckinBodies :
       /\ CheckinReason(body) = "DeviceAlreadyCheckedIn"
       /\ DigitsOf(body) \in LedgerPhones(eventData)
       /\ eventData.requireLocation
       /\ Beyond(body.distance, eventData.radius)

\* C2: in every reachable state, every vote request is answered with the reason
\* of the first failing check in the order poll active, fingerprint in the
\* ledger, fingerprint has a recorded vote, distance; it succeeds when none fails.
VoteReturnsFirstFailure ==
  \A body \in VoteBodies :
    VoteReason(body) = FirstFailure(VoteOrder(eventData, body))

\* C3: no two entries of the attendance ledger carry the same fingerprint.
LedgerFingerprintsUnique ==
  \A i, j \in 1..Len(eventData.attendees) :
    eventData.attendees[i].fingerprint = eventData.attendees[j].fingerprint => i = j

\* C3 witness: two devices are checked in and a check-in from a used device
\* has just been refused.
TwoDevicesCheckedIn ==
  /\ Len(eventData.attendees) = 2
  /\ response.op = "checkin"
  /\ response.reason = "DeviceAlreadyCheckedIn"

\* C4: no two entries of the attendance ledger carry the same normalized phone.
LedgerPhonesUnique ==
  \A i, j \in 1..Len(eventData.attendees) :
    eventData.attendees[i].phone = eventData.attendees[j].phone => i = j

\* C4 witness: the roster was replaced during the event (an attendee's phone is
\* no longer on it) and a member of the new roster checked in after that.
RosterReplacedMidEvent ==
  /\ Len(eventData.attendees) = 2
  /\ \E a \in Range(eventData.attendees) : a.phone \notin RosterPhones(eventData)
  /\ response.op = "checkin"
  /\ response.reason = "Success"

\* C5: once a fingerprint has a recorded vote, whatever its value, every further
\* vote by it is refused and leaves the vote map as it is, with AlreadyVoted
\* whenever the poll is active and the fingerprint is in the ledger.
VotesWriteOnce ==
  \A body \in VoteBodies :
    PropertyKey(body.fingerprint) \in Voters(eventData) =>
      /\ VoteReason(body) # "Success"
      /\ vote(eventData, body).data.votes = eventData.votes
      /\ (eventData.isPollActive /\ body.fingerprint \in LedgerFingerprints(eventData)
            => VoteReason(body) = "AlreadyVoted")

\* C6 as stated: every fingerprint in the vote map has an entry in the ledger.
VotersAreInLedger ==
  \A k \in Voters(eventData) :
    \E a \in Range(eventData.attendees) : PropertyKey(a.fingerprint) = k

\* C6 as amended: a step records or changes a vote only for a fingerprint that
\* has an entry in the ledger at that moment.
VoteRecordedOnlyForAttendee ==
  [][\A k \in DOMAIN eventData'.votes :
       (k \notin Voters(eventData) \/ eventData'.votes[k] # eventData.votes[k])
         => \E a \in Range(eventData.attendees) : PropertyKey(a.fingerprint) = k]_vars

\* C6 witness: a vote has just been recorded for a fingerprint in the ledger.
VoteRecordedForAttendee ==
  /\ response.op = "vote"
  /\ response.reason = "Success"
  /\ \E a \in Range(eventData.attendees) :
       PropertyKey(a.fingerprint) \in Voters(eventData)

\* C7: while the roster is empty no check-in succeeds or changes the session
\* state, and an active-event check-in with a 10-digit phone is answered
\* NoRosterLoaded.
EmptyRosterFailsClosed ==
  eventData.approvedMembers = <<>> =>
    \A body \in CheckinBodies, now \in ClockReadings :
      /\ checkin(eventData, body, now).reply.reason # "Success"
      /\ checkin(eventData, body, now).data = eventData
      /\ (eventData.isEventActive /\ Len(DigitsOf(body)) = PhoneDigits
            => checkin(eventData, body, now).reply.reason = "NoRosterLoaded")

\* C7 witness: with the event active and no roster, a check-in was answered
\* NoRosterLoaded.
RefusedForNoRoster ==
  /\ eventData.approvedMembers = <<>>
  /\ eventData.isEventActive
  /\ response.op = "checkin"
  /\ response.reason = "NoRosterLoaded"

\* C8: while requireLocation is true, an accepted check-in or vote was made
\* against a radius in force and from within it, so the ledger entry it created
\* records a distance within that radius; and against a radius in force every
\* request from beyond it is answered OutOfRange while a request on it passes
\* the distance check.
GeofenceEnforced ==
  eventData.requireLocation =>
    /\ response.op = "checkin" /\ response.reason = "Success" =>
         /\ eventData.radius[1] = "number"
         /\ eventData.attendees[Len(eventData.attendees)].distance[2]
              <= eventData.radius[2]
    /\ response.op = "vote" /\ response.reason = "Success" =>
         eventData.radius[1] = "number"
    /\ eventData.radius[1] = "number" =>
         /\ \A body \in CheckinBodies :
              /\ CheckinReason(body) = "Success" =>
                   body.distance[2] <= eventData.radius[2]
              /\ body.distance = eventData.radius =>
                   CheckinReason(body) # "OutOfRange"
         /\ \A body \in VoteBodies :
              /\ VoteReason(body) = "Success" =>
                   body.distance[2] <= eventData.radius[2]
              /\ body.distance = eventData.radius => VoteReason(body) # "OutOfRange"

\* C9: a step that answers a check-in or a vote with a refusal leaves the whole
\* session state unchanged (the reply being a function of the session state and
\* the request, the same request is then refused for the same reason again).
RefusalChangesNothing ==
  [][response'.op \in {"checkin", "vote"} /\ response'.reason # "Success"
       => eventData' = eventData]_vars

\* C9 witness: a check-in was refused for its distance while the ledger holds
\* an attendee.
RefusedWithLedgerInPlace ==
  /\ response.op = "checkin"
  /\ response.reason = "OutOfRange"
  /\ Len(eventData.attendees) = 1

\* C10 as stated: a check-in whose fingerprint is in the fingerprint set is
\* answered DeviceAlreadyCheckedIn whatever identity it carries.
UsedDeviceAlwaysRefusedAsDevice ==
  \A body \in CheckinBodies :
    body.fingerprint \in UsedFingerprints(eventData) =>
      CheckinReason(body) = "DeviceAlreadyCheckedIn"

\* C10 as amended: a check-in whose fingerprint is in the fingerprint set never
\* succeeds; it is answered DeviceAlreadyCheckedIn whenever the event is active
\* and its phone is a 10-digit phone of the roster, whether or not that phone
\* has checked in and whatever the distance, and otherwise with the reason of
\* the earlier check that fails.
UsedDeviceRefused ==
  \A body \in CheckinBodies :
    body.fingerprint \in UsedFingerprints(eventData) =>
      /\ CheckinReason(body) \in
           {"NoActiveEvent", "InvalidIdentityFormat", "NotOnRoster",
            "DeviceAlreadyCheckedIn"}
      /\ (/\ eventData.isEventActive
          /\ Len(DigitsOf(body)) = PhoneDigits
          /\ DigitsOf(body) \in RosterPhones(eventData))
           <=> CheckinReason(body) = "DeviceAlreadyCheckedIn"

\* C10 witness: one device is checked in, a check-in from it was refused as a
\* used device, and a roster member who has not checked in would be refused on
\* it too.
UsedDeviceOtherIdentity ==
  /\ Len(eventData.attendees) = 1
  /\ response.op = "checkin"
  /\ response.reason = "DeviceAlreadyCheckedIn"
  /\ \E body \in CheckinBodies :
       /\ body.fingerprint \in UsedFingerprints(eventData)
       /\ DigitsOf(body) \notin LedgerPhones(eventData)
       /\ CheckinReason(body) = "DeviceAlreadyCheckedIn"

\* The whole number of metres nearest to a distance, a half going up.
NearestMetre(d) ==
  Metres(CHOOSE m \in 0..(2 * DefaultRadius) :
           /\ 2 * m * Unit - Unit <= 2 * d[2]
           /\ 2 * d[2] < 2 * m * Unit + Unit)

\* C11: in every reachable state, a check-in that succeeds yields the session
\* state with one entry appended to the ledger, carrying the digits of the
\* request's phone, the name the roster holds for them, the request's distance
\* rounded to the nearest metre and the request's fingerprint, with that
\* fingerprint appended to the fingerprint set and every other field as it was.
CheckinSuccessEffect ==
  \A body \in CheckinBodies, now \in ClockReadings :
    LET after == checkin(eventData, body, now).data
        entry == after.attendees[Len(after.attendees)]
    IN CheckinReason(body) = "Success" =>
         /\ after = [eventData EXCEPT
                       !.attendees = Append(@, entry),
                       !.deviceFingerprints = Append(@, body.fingerprint)]
         /\ entry.phone = DigitsOf(body)
         /\ \E m \in Range(eventData.approvedMembers) :
              m.phone = entry.phone /\ m.name = entry.name
         /\ entry.distance = NearestMetre(body.distance)
         /\ entry.fingerprint = body.fingerprint

\* C11 witness: a check-in has just succeeded as the second of the ledger, its
\* entry holding the ten digits of the phone sent as "(555) 123-4567" and a
\* whole number of metres, and the fingerprint set holding both fingerprints.
SecondAttendeeAppended ==
  /\ response.op = "checkin"
  /\ response.reason = "Success"
  /\ Len(eventData.attendees) = 2
  /\ eventData.attendees[2].phone = StripNonDigits(AliceFormatted)
  /\ eventData.attendees[2].distance = Metres(DefaultRadius)
  /\ UsedFingerprints(eventData) = Fingerprints

\* C12: in the state an event start leaves, the event is active and the ledger
\* and the fingerprint set are empty, so that no check-in is then refused for a
\* used device or a used phone: every request with a 10-digit phone of the
\* roster that the distance check lets through succeeds, whoever was checked in
\* before.
StartEventResets ==
  response.op = "start-event" =>
    /\ eventData.isEventActive
    /\ eventData.attendees = <<>>
    /\ eventData.deviceFingerprints = <<>>
    /\ \A body \in CheckinBodies :
         /\ CheckinReason(body) \notin {"DeviceAlreadyCheckedIn", "AlreadyCheckedIn"}
         /\ (/\ Len(DigitsOf(body)) = PhoneDigits
             /\ DigitsOf(body) \in RosterPhones(eventData)
             /\ ~(eventData.requireLocation
                    /\ Beyond(body.distance, eventData.radius)))
              => CheckinReason(body) = "Success"

\* C12 witness: a check-in has just succeeded as the first of the ledger, from a
\* fingerprint that voted in the running poll, hence was in the ledger before:
\* the event was started again in between.
CheckedInAgainAfterRestart ==
  /\ response.op = "checkin"
  /\ response.reason = "Success"
  /\ Len(eventData.attendees) = 1
  /\ PropertyKey(eventData.attendees[1].fingerprint) \in Voters(eventData)

\* C13: in the state a poll start leaves, the poll is active under the question
\* and options of the request and the vote map is empty, and every fingerprint
\* of the ledger votes exactly once: its vote within the distance check
\* succeeds, and after it every further vote of that fingerprint is refused.
StartPollResets ==
  response.op = "start-poll" =>
    /\ eventData.isPollActive
    /\ eventData.votes = EmptyObject
    /\ \E start \in StartPollBodies :
         /\ eventData.pollQuestion = start.pollQuestion
         /\ eventData.pollOptions = start.pollOptions
    /\ \A first \in VoteBodies :
         (/\ first.fingerprint \in LedgerFingerprints(eventData)
          /\ ~(eventData.requireLocation
                 /\ Beyond(first.distance, eventData.radius)))
           => /\ VoteReason(first) = "Success"
              /\ \A second \in VoteBodies :
                   second.fingerprint = first.fingerprint =>
                     vote(vote(eventData, first).data, second).reply.reason
                       # "Success"

\* C14: a step that ends the event changes the event's active flag, to false,
\* and nothing else, and a step that ends the poll changes the poll's active
\* flag, to false, and nothing else; the attendee list and the tally read after
\* either step equal those read before it.
EndingChangesOnlyFlag ==
  [][/\ response'.op = "end-event" =>
          eventData' = [eventData EXCEPT !.isEventActive = FALSE]
     /\ response'.op = "end-poll" =>
          eventData' = [eventData EXCEPT !.isPollActive = FALSE]
     /\ response'.op \in {"end-event", "end-poll"} =>
          /\ listAttendees(eventData') = listAttendees(eventData)
          /\ tallyVotes(eventData') = tallyVotes(eventData)]_vars

\* C14 witness: the event has just been ended after its poll was, the ledger
\* and the vote map still holding the attendees and their votes.
EndedWithRecordsKept ==
  /\ response.op = "end-event"
  /\ ~eventData.isEventActive
  /\ ~eventData.isPollActive
  /\ Len(eventData.attendees) = 2
  /\ tallyVotes(eventData).totalVotes = 2

\* The sum of the values of a function to the naturals, over a set of its keys.
RECURSIVE SumOver(_, _)
SumOver(f, keys) ==
  IF keys = {} THEN 0
  ELSE LET k == CHOOSE x \in keys : TRUE IN f[k] + SumOver(f, keys \ {k})

\* C15: in every reachable state the tally has one bucket per configured option,
\* holding the number of fingerprints whose recorded vote is that option, and
\* its total is the size of the vote map; no bucket and no sum of buckets
\* exceeds the total, votes for anything else being counted in the total only.
TallyCountsVotes ==
  LET tally == tallyVotes(eventData)
      configured == Range(eventData.pollOptions[2])
  IN /\ DOMAIN tally.results = configured
     /\ \A o \in configured :
          /\ tally.results[o] =
               Cardinality({k \in Voters(eventData) : eventData.votes[k] = Str(o)})
          /\ tally.results[o] <= tally.totalVotes
     /\ tally.totalVotes = Cardinality(Voters(eventData))
     /\ SumOver(tally.results, configured) <= tally.totalVotes

\* C15 witness: the tally has just been read while the vote map holds one vote
\* for a configured option and one for none of them.
TallyWithStrayVote ==
  /\ response.op = "votes"
  /\ tallyVotes(eventData).totalVotes = 2
  /\ SumOver(tallyVotes(eventData).results, DOMAIN tallyVotes(eventData).results) = 1
  /\ \E k \in Voters(eventData) :
       PropertyKey(eventData.votes[k]) \notin Range(eventData.pollOptions[2])

\* The requests that lack at least one of the fields their handler reads.
CheckinBodiesLacking ==
  Optional(Optional(Optional({NoFields}, "phone", Phones),
                    "fingerprint", Fingerprints), "distance", Distances)
    \ CheckinBodies

VoteBodiesLacking ==
  {body \in Optional(Optional(Optional({NoFields}, "fingerprint", Fingerprints),
                              "option", Options), "distance", VoteDistances) :
     DOMAIN body # {"fingerprint", "option", "distance"}}

\* C16: in every reachable state, a check-in without phone or fingerprint, or
\* without distance while requireLocation is true, and a vote without
\* fingerprint, option or distance, is refused and leaves the session state as
\* it is.
MissingFieldRejected ==
  /\ \A body \in CheckinBodiesLacking, now \in ClockReadings :
       (\/ "phone" \notin DOMAIN body
        \/ "fingerprint" \notin DOMAIN body
        \/ eventData.requireLocation)
         => /\ checkin(eventData, body, now).reply.reason # "Success"
            /\ checkin(eventData, body, now).data = eventData
  /\ \A body \in VoteBodiesLacking :
       /\ vote(eventData, body).reply.reason # "Success"
       /\ vote(eventData, body).data = eventData

\* C17: a step that answers a roster upload either reports a failure and leaves
\* the session state as it is, or reports success and replaces the roster with
\* a list of at least one member, changing nothing else; an upload that yields
\* no member is never answered with success.
RosterReplacedOnlyByMembers ==
  [][response'.op = "upload-roster" =>
       IF response'.status = 200
       THEN /\ eventData'.approvedMembers # <<>>
            /\ eventData' =
                 [eventData EXCEPT !.approvedMembers = eventData'.approvedMembers]
       ELSE /\ response'.status >= 400
            /\ eventData' = eventData]_vars

\* C18: in the state an event start leaves, requireLocation being true, the
\* radius is a number; and from every reachable state, a start request without
\* radius leaves the radius at 50 metres, one without requireLocation leaves the
\* flag true, and whenever the flag is left true the radius left is a number.
StartEventDefaults ==
  /\ response.op = "start-event" /\ eventData.requireLocation
       => IsNum(eventData.radius)
  /\ \A body \in StartEventBodies :
       LET after == startEvent(eventData, body).data
       IN /\ "radius" \notin DOMAIN body => after.radius = Metres(DefaultRadius)
          /\ "requireLocation" \notin DOMAIN body => after.requireLocation
          /\ after.requireLocation => IsNum(after.radius)

\* C19: every step being one whole handler, in every reachable state and for
\* either order of two requests that arrive together: of two check-ins with
\* the same fingerprint or the same phone digits at most one succeeds, and of
\* two votes with the same fingerprint at most one succeeds.
ConcurrentRequestsSerialized ==
  /\ \A first, second \in CheckinBodies :
       (\/ first.fingerprint = second.fingerprint
        \/ DigitsOf(first) = DigitsOf(second))
         => LET served == checkin(eventData, first, 1)
            IN served.reply.reason = "Success" =>
                 checkin(served.data, second, 1).reply.reason # "Success"
  /\ \A first, second \in VoteBodies :
       first.fingerprint = second.fingerprint
         => LET served == vote(eventData, first)
            IN served.reply.reason = "Success" =>
                 vote(served.data, second).reply.reason # "Success"

\* C20: on every step that is not an event start, the ledger before the step is
\* a prefix of the ledger after it: no entry is removed, moved or modified.
LedgerAppendOnly ==
  [][response'.op # "start-event" =>
       /\ Len(eventData.attendees) <= Len(eventData'.attendees)
       /\ SubSeq(eventData'.attendees, 1, Len(eventData.attendees))
            = eventData.attendees]_vars

\* C20 witness: the roster has just been replaced while the ledger holds two
\* attendees, one of them no longer on the roster.
RosterReplacedUnderLedger ==
  /\ response.op = "upload-roster"
  /\ response.reason = "Success"
  /\ Len(eventData.attendees) = 2
  /\ \E a \in Range(eventData.attendees) : a.phone \notin RosterPhones(eventData)

\* C21: in every reachable state the fingerprint set is as long as the ledger
\* and its i-th element is the fingerprint of the i-th attendee, so that for
\* every fingerprint, sent or missing, the device test of check-in
\* (deviceFingerprints.includes) and the eligibility test of vote
\* (attendees.find) give the same answer.
FingerprintsMirrorLedger ==
  /\ Len(eventData.deviceFingerprints) = Len(eventData.attendees)
  /\ \A i \in 1..Len(eventData.attendees) :
       eventData.deviceFingerprints[i] = eventData.attendees[i].fingerprint
  /\ \A fingerprint \in Fingerprints \cup {Undefined} :
       Includes(eventData.deviceFingerprints, fingerprint)
         <=> Truthy(FindAttendee(eventData.attendees, fingerprint))

\* C21 witness: with one device in the ledger and in the fingerprint set, a
\* vote has just been refused for a fingerprint that is in neither, which a
\* check-in would not refuse as a used device.
VoteRefusedForUnknownDevice ==
  /\ response.op = "vote"
  /\ response.reason = "NotCheckedIn"
  /\ Len(eventData.attendees) = 1
  /\ Len(eventData.deviceFingerprints) = 1
  /\ \E body \in CheckinBodies :
       /\ body.fingerprint \notin LedgerFingerprints(eventData)
       /\ CheckinReason(body) = "Success"

\* The poll's part of the session state, the event's part, and the roster.
PollPart(ed) ==
  <<ed.pollQuestion, ed.pollOptions, ed.isPollActive, ed.votes>>

EventPart(ed) ==
  <<ed.eventName, ed.eventLocation, ed.radius, ed.accessCode, ed.requireLocation,
    ed.isEventActive, ed.attendees, ed.deviceFingerprints>>

\* C22: a step that starts or ends the event leaves the poll's question,
\* options, active flag and votes as they were; a step that starts or ends the
\* poll leaves the event's configuration, active flag, ledger and fingerprint
\* set as they were; none of the four changes the roster. In the state an event
\* end leaves, the poll being active, a vote from a fingerprint of the ledger
\* that has not voted and passes the distance check succeeds.
LifecyclesIndependent ==
  [][/\ response'.op \in {"start-event", "end-event"} =>
          PollPart(eventData') = PollPart(eventData)
     /\ response'.op \in {"start-poll", "end-poll"} =>
          EventPart(eventData') = EventPart(eventData)
     /\ response'.op \in {"start-event", "end-event", "start-poll", "end-poll"} =>
          eventData'.approvedMembers = eventData.approvedMembers
     /\ response'.op = "end-event" /\ eventData'.isPollActive =>
          \A body \in VoteBodies :
            (/\ body.fingerprint \in LedgerFingerprints(eventData')
             /\ PropertyKey(body.fingerprint) \notin Voters(eventData')
             /\ ~(eventData'.requireLocation
                    /\ Beyond(body.distance, eventData'.radius)))
              => vote(eventData', body).reply.reason = "Success"]_vars

\* C22 witness: a vote has just been accepted while the event is ended and the
\* poll active.
VotedAfterEventEnded ==
  /\ response.op = "vote"
  /\ response.reason = "Success"
  /\ ~eventData.isEventActive
  /\ eventData.isPollActive

====
